---- MODULE Spec2Model ----
(***************************************************************************)
(* Model of AnimationFrameOrder and of the part of O3DVisualizer::Impl     *)
(* that owns one (frames_), from                                           *)
(* cpp/open3d/visualization/visualizer/O3DVisualizer.cpp.                  *)
(*                                                                         *)
(* Order tags are doubles compared exactly; the model draws them from a    *)
(* small set of integers, which keeps <, == and != as the code uses them.  *)
(* Iterators into values_ are modelled by their offset from begin(), so    *)
(* end() is the offset Len(values).                                        *)
(***************************************************************************)
EXTENDS Integers, Sequences, FiniteSets, TLC

\* Largest order tag the standalone AnimationFrameOrder is driven with.
MaxValue == 3
\* Number of most recent calls remembered in call_log.
HistLen == 3
\* Width of size_t in the model (the build's is 64; the model keeps the
\* wrap-around of -1 at a width the checker's integers can hold).
SizeBits == 16

\* Largest order tag given to AddGeometry, and the most objects held at once.
MaxOrder == 2
MaxObjects == 2
\* Most custom actions added, and most selection sets held at once.
MaxActions == 2
MaxSets == 3

Values == 1..MaxValue
SizeModulus == 2 ^ SizeBits

\* RemoveGeometry starts from order = -1e30. The time tags given to
\* AddGeometry are 1..MaxOrder and 0 stands for -1e30, below every tag a
\* caller gives (the relabelling keeps the order and the equalities of the
\* doubles).
kUnsetOrder == 0
Orders == 1..MaxOrder
Names == {"a", "b"}
GroupArgs == {"", "g"}
\* Frame arguments: every valid frame index and the number of frames itself,
\* there being no more frames than objects.
FrameArgs == 0..MaxObjects
\* The points one pick returns.
Points == {"p"}

VARIABLES
    values_,    \* AnimationFrameOrder::values_ of a free-standing instance
    model_set,  \* reference: the mathematical set driven by the same calls
    call_log,   \* the last HistLen calls: [op, arg, before, ret]
    objects_,       \* Impl::objects_: <<[name, group, order, is_visible]>>
    frames_,        \* Impl::frames_ (its values_)
    added_groups_,  \* Impl::added_groups_
    enabled_groups, \* Impl::ui_state_.enabled_groups
    current_frame,  \* Impl::ui_state_.current_frame
    is_animating,   \* Impl::ui_state_.is_animating
    can_auto_show_settings_,  \* Impl::can_auto_show_settings_
    show_settings,  \* Impl::ui_state_.show_settings
    vis_call,       \* the last visualizer call: [op, name, held, oob]
    scene_,         \* the scene's geometries by name: absent, shown, hidden
    anim_slider,    \* value shown by settings.anim_slider
    anim_edit,      \* value shown by settings.anim_edit
    n_actions,      \* settings.actions->size()
    sets_,          \* selections_->GetSets(): the picked points of each set
    selected_set,   \* the set selections_ has selected (SelectSet)
    list_selected,  \* settings.selection_sets->GetSelectedIndex()
    picking_active, \* selections_->IsActive()
    sel_call        \* the last selection call: [op, arg, sets]

frame_order_vars == <<values_, model_set, call_log>>
selection_vars == <<sets_, selected_set, list_selected, picking_active,
                    sel_call>>
impl_vars == <<objects_, frames_, added_groups_, enabled_groups,
               current_frame, is_animating, can_auto_show_settings_,
               show_settings, vis_call, scene_, anim_slider, anim_edit,
               n_actions>>
visualizer_vars == <<impl_vars, selection_vars>>
vars == <<values_, model_set, call_log, objects_, frames_, added_groups_,
          enabled_groups, current_frame, is_animating,
          can_auto_show_settings_, show_settings, vis_call, scene_,
          anim_slider, anim_edit, n_actions, sets_, selected_set,
          list_selected, picking_active, sel_call>>

----------------------------------------------------------------------------
\* Sequence helpers: std::vector operations at an iterator offset.

Range(s) == {s[i] : i \in 1..Len(s)}

\* std::vector::insert(begin() + it, x)
InsertAt(s, it, x) == SubSeq(s, 1, it) \o <<x>> \o SubSeq(s, it + 1, Len(s))

\* std::vector::erase(begin() + it)
EraseAt(s, it) == SubSeq(s, 1, it) \o SubSeq(s, it + 2, Len(s))

\* std::lower_bound(values_.begin(), values_.end(), order): the bisection the
\* standard library runs, on whatever the vector holds.
RECURSIVE LowerBoundLoop(_, _, _, _)
LowerBoundLoop(s, value, first, count) ==
    IF count <= 0 THEN first
    ELSE LET step == count \div 2
             it == first + step
         IN  IF s[it + 1] < value
             THEN LowerBoundLoop(s, value, it + 1, count - (step + 1))
             ELSE LowerBoundLoop(s, value, first, step)

lower_bound(s, value) == LowerBoundLoop(s, value, 0, Len(s))

----------------------------------------------------------------------------
\* AnimationFrameOrder

\* Variants of the operations with one plausible slip each.
AddValue_AlwaysAppend(values, order) ==
    LET it == lower_bound(values, order)
    IN  IF it = Len(values) THEN Append(values, order)
        ELSE IF values[it + 1] # order THEN Append(values, order)
        ELSE values

AddValue_NoDuplicateCheck(values, order) ==
    LET it == lower_bound(values, order)
    IN  IF it = Len(values) THEN Append(values, order)
        ELSE InsertAt(values, it, order)

AddValue_InsertAtBegin(values, order) ==
    LET it == lower_bound(values, order)
    IN  IF it = Len(values) THEN <<order>> \o values
        ELSE IF values[it + 1] # order THEN InsertAt(values, it, order)
        ELSE values

RemoveValue_EraseLast(values, order) ==
    LET it == lower_bound(values, order)
    IN  IF it # Len(values) THEN EraseAt(values, Len(values) - 1) ELSE values

AddValue_InsertAfter(values, order) ==
    LET it == lower_bound(values, order)
    IN  IF it = Len(values) THEN Append(values, order)
        ELSE IF values[it + 1] # order THEN InsertAt(values, it + 1, order)
        ELSE values

AddValue_AppendWhenSmallest(values, order) ==
    LET it == lower_bound(values, order)
    IN  IF it = Len(values) \/ it = 0 THEN Append(values, order)
        ELSE IF values[it + 1] # order THEN InsertAt(values, it, order)
        ELSE values

\* -1 left unconverted.
NotFound_Unconverted == 0 - 1

GetFrameForValue_OffByOne(values, order) ==
    LET it == lower_bound(values, order)
    IN  IF it # Len(values) THEN it + 1 ELSE (0 - 1) % SizeModulus

AddValue(values, order) ==
    LET it == lower_bound(values, order)
    IN  IF it = Len(values) THEN Append(values, order)
        ELSE IF values[it + 1] # order THEN InsertAt(values, it, order)
        ELSE values

RemoveValue(values, order) ==
    LET it == lower_bound(values, order)
    IN  IF it # Len(values) THEN EraseAt(values, it) ELSE values

\* return -1 from a function returning size_t
NotFound == (0 - 1) % SizeModulus

GetFrameForValue(values, order) ==
    LET it == lower_bound(values, order)
    IN  IF it # Len(values) THEN it ELSE NotFound

GetNumberOfFrames(values) == Len(values)

----------------------------------------------------------------------------
\* Calls on a free-standing AnimationFrameOrder.

Logged(entry) ==
    LET l == Append(call_log, entry)
    IN  IF Len(l) > HistLen THEN Tail(l) ELSE l

CallAddValue(order) ==
    /\ values_' = AddValue(values_, order)
    /\ model_set' = model_set \cup {order}
    /\ call_log' = Logged([op |-> "AddValue", arg |-> order,
                           before |-> values_, ret |-> 0])
    /\ UNCHANGED visualizer_vars

CallRemoveValue(order) ==
    /\ values_' = RemoveValue(values_, order)
    /\ model_set' = model_set \ {order}
    /\ call_log' = Logged([op |-> "RemoveValue", arg |-> order,
                           before |-> values_, ret |-> 0])
    /\ UNCHANGED visualizer_vars

CallGetFrameForValue(order) ==
    /\ call_log' = Logged([op |-> "GetFrameForValue", arg |-> order,
                           before |-> values_,
                           ret |-> GetFrameForValue(values_, order)])
    /\ UNCHANGED <<values_, model_set>>
    /\ UNCHANGED visualizer_vars

\* A default-constructed AnimationFrameOrder, and Impl as its member
\* initialisers and UIState's leave it.
Init ==
    /\ values_ = <<>>
    /\ model_set = {}
    /\ call_log = <<>>
    /\ objects_ = <<>>
    /\ frames_ = <<>>
    /\ added_groups_ = {}
    /\ enabled_groups = {}
    /\ current_frame = 0
    /\ is_animating = FALSE
    /\ can_auto_show_settings_ = TRUE
    /\ show_settings = FALSE
    /\ vis_call = [op |-> "none", name |-> "", held |-> FALSE, oob |-> FALSE]
    /\ scene_ = [n \in Names |-> "absent"]
    /\ anim_slider = 0
    /\ anim_edit = 0
    /\ n_actions = 0
    /\ sets_ = <<>>
    /\ selected_set = 0 - 1
    /\ list_selected = 0 - 1
    /\ picking_active = FALSE
    /\ sel_call = [op |-> "none", arg |-> 0, sets |-> 0]

Next ==
    \/ \E order \in Values : CallAddValue(order)
    \/ \E order \in Values : CallRemoveValue(order)
    \/ \E order \in Values : CallGetFrameForValue(order)

Spec == Init /\ [][Next]_vars

----------------------------------------------------------------------------
\* O3DVisualizer::Impl: the object list, the frame order, the group sets, the
\* animation and settings fields of ui_state_, the two animation widgets'
\* values, the visibility the scene holds per geometry name, the number of
\* custom actions and the selection sets. The object tree, the panels'
\* layout, materials, lighting and the camera are not part of the state here;
\* the handlers' calls on them are left out.

GroupName(group) == IF group = "" THEN "default" ELSE group
GroupNames == {GroupName(g) : g \in GroupArgs}

\* Index of the first object called name (1-based), 0 if there is none: the
\* search loop of RemoveGeometry and ShowGeometry.
RECURSIVE FindObjectFrom(_, _, _)
FindObjectFrom(objects, name, i) ==
    IF i > Len(objects) THEN 0
    ELSE IF objects[i].name = name THEN i
    ELSE FindObjectFrom(objects, name, i + 1)

FindObject(objects, name) == FindObjectFrom(objects, name, 1)

\* The scene (Open3DScene) keeps one geometry per name. AddGeometry creates
\* it shown, ShowGeometry sets its visibility, RemoveGeometry drops it; a
\* call naming a geometry the scene does not hold changes nothing.
SceneAddGeometry(scene, name) ==
    IF scene[name] = "absent" THEN [scene EXCEPT ![name] = "shown"] ELSE scene

SceneShowGeometry(scene, name, show) ==
    IF scene[name] = "absent" THEN scene
    ELSE [scene EXCEPT ![name] = IF show THEN "shown" ELSE "hidden"]

SceneRemoveGeometry(scene, name) == [scene EXCEPT ![name] = "absent"]

\* The part of Impl the nested handlers read and write, as one record.
ImplState ==
    [objects |-> objects_, frames |-> frames_, enabled |-> enabled_groups,
     frame |-> current_frame, animating |-> is_animating, scene |-> scene_,
     slider |-> anim_slider, edit |-> anim_edit]

IsGeometryVisible_IgnoresFrame(st, o) ==
    o.is_visible /\ o.group \in st.enabled

IsGeometryVisible(st, o) ==
    LET is_current == GetFrameForValue(st.frames, o.order) = st.frame
        is_group_enabled == o.group \in st.enabled
    IN  o.is_visible /\ is_current /\ is_group_enabled

UpdateGeometryVisibility(st, o) ==
    [st EXCEPT !.scene = SceneShowGeometry(st.scene, o.name,
                                           IsGeometryVisible(st, o))]

\* for (auto &o : objects_) UpdateGeometryVisibility(o), from object i on.
RECURSIVE UpdateAllFrom(_, _)
UpdateAllFrom(st, i) ==
    IF i > Len(st.objects) THEN st
    ELSE UpdateAllFrom(UpdateGeometryVisibility(st, st.objects[i]), i + 1)

UpdateAllGeometryVisibility(st) == UpdateAllFrom(st, 1)

SetCurrentFrameValue_NoWrap(f, frames) == f

SetCurrentFrameValue_WrapsLate(f, frames) ==
    IF f > GetNumberOfFrames(frames) THEN 0 ELSE f

SetAnimatingFrame_StartsAtZero(animate, animating, frame, frames) ==
    IF animate = animating THEN frame ELSE 0

\* ui_state_.current_frame as SetCurrentFrame(f) leaves it.
SetCurrentFrameValue(f, frames) ==
    IF f >= GetNumberOfFrames(frames) THEN 0 ELSE f

SetCurrentFrameOn(st, f) ==
    LET frame == SetCurrentFrameValue(f, st.frames)
        shown == UpdateAllGeometryVisibility([st EXCEPT !.frame = frame])
    IN  [shown EXCEPT !.slider = frame, !.edit = frame]

\* ui_state_.current_frame as SetAnimating(animate) leaves it, called with
\* current_frame = frame and ui_state_.is_animating = animating.
SetAnimatingFrame(animate, animating, frame, frames) ==
    IF animate = animating THEN frame
    ELSE IF animate THEN GetNumberOfFrames(frames)
    ELSE SetCurrentFrameValue(0, frames)

SetAnimatingOn(st, animate) ==
    IF animate = st.animating THEN st
    ELSE IF animate
    THEN [st EXCEPT !.animating = TRUE,
                    !.frame = SetAnimatingFrame(TRUE, st.animating, st.frame,
                                                st.frames)]
    ELSE SetCurrentFrameOn([st EXCEPT !.animating = FALSE], 0)

EnableGroupOn(st, group, enable) ==
    UpdateAllGeometryVisibility(
        [st EXCEPT !.enabled = IF enable THEN st.enabled \cup {group}
                               ELSE st.enabled \ {group}])

\* for (auto &group : added_groups_) EnableGroup(group, <in enabled_groups>).
\* Every call redoes the visibility of all objects, so the order in which
\* the groups are taken does not show in the result.
RECURSIVE EnableGroupsOn(_, _, _)
EnableGroupsOn(st, groups, wanted) ==
    IF groups = {} THEN st
    ELSE LET group == CHOOSE g \in groups : TRUE
         IN  EnableGroupsOn(EnableGroupOn(st, group, group \in wanted),
                            groups \ {group}, wanted)

Assign(after) ==
    \E st \in {after} :
        /\ objects_' = st.objects
        /\ frames_' = st.frames
        /\ enabled_groups' = st.enabled
        /\ current_frame' = st.frame
        /\ is_animating' = st.animating
        /\ scene_' = st.scene
        /\ anim_slider' = st.slider
        /\ anim_edit' = st.edit

ShowSettingsFlags_KeepsAutoShow(show) ==
    [can_auto |-> can_auto_show_settings_, show |-> show]

\* can_auto_show_settings_ and ui_state_.show_settings after ShowSettings.
ShowSettingsFlags(show) == [can_auto |-> FALSE, show |-> show]

SettingsFlags == [can_auto |-> can_auto_show_settings_, show |-> show_settings]

AssignSettings(flags) ==
    /\ can_auto_show_settings_' = flags.can_auto
    /\ show_settings' = flags.show

RemainingGroups_KeepsRemoved(objects) ==
    added_groups_ \cup {o.group : o \in Range(objects)}

\* The set groups RemoveGeometry collects from the objects left.
RemainingGroups(objects) == {o.group : o \in Range(objects)}

KeptEnabled_KeepsAll(enabled, groups) == enabled

\* The set enabled RemoveGeometry builds: the enabled groups still in groups.
KeptEnabled(enabled, groups) == {g \in enabled : g \in groups}

Called(op, name, held, oob) ==
    [op |-> op, name |-> name, held |-> held, oob |-> oob]

AddGeometry(name, group, order, is_visible) ==
    LET group_name == GroupName(group)
        is_new_group == group_name \notin added_groups_
        groups == added_groups_ \cup {group_name}
        orig_n_frames == GetNumberOfFrames(frames_)
        frames == AddValue(frames_, order)
        update_for_order == orig_n_frames < GetNumberOfFrames(frames)
        auto_show == /\ can_auto_show_settings_
                     /\ (Cardinality(groups) = 2 \/ update_for_order)
        o == [name |-> name, group |-> group_name, order |-> order,
              is_visible |-> is_visible]
        added == [ImplState EXCEPT
                     !.enabled = IF is_new_group THEN @ \cup {group_name}
                                 ELSE @,
                     !.frames = frames,
                     !.objects = Append(@, o),
                     !.scene = SceneAddGeometry(@, name)]
    IN  /\ Len(objects_) < MaxObjects
        /\ added_groups_' = groups
        /\ AssignSettings(IF auto_show THEN ShowSettingsFlags(TRUE)
                          ELSE SettingsFlags)
        /\ Assign(UpdateGeometryVisibility(added, o))
        /\ vis_call' = Called("AddGeometry", name,
                              FindObject(objects_, name) # 0, FALSE)
        /\ UNCHANGED n_actions
        /\ UNCHANGED <<frame_order_vars, selection_vars>>

\* The read of objects_[i].name after the erase is past the end when the
\* erased object was the last one; vis_call.oob records it. The string read
\* is only the key of an erase from object2itemid, which UpdateObjectTree
\* clears before the handler returns.
RemoveGeometry(name) ==
    LET i == FindObject(objects_, name)
        order == IF i = 0 THEN kUnsetOrder ELSE objects_[i].order
        objects == IF i = 0 THEN objects_ ELSE EraseAt(objects_, i - 1)
        groups == RemainingGroups(objects)
        n_others_with_this_order ==
            Cardinality({k \in 1..Len(objects) : objects[k].order = order})
        frames == IF n_others_with_this_order = 0
                  THEN RemoveValue(frames_, order)
                  ELSE frames_
        erased == [ImplState EXCEPT !.objects = objects, !.frames = frames]
        stopped == IF GetNumberOfFrames(frames) <= 1
                   THEN SetAnimatingOn(erased, FALSE)
                   ELSE erased
        valid == SetCurrentFrameOn(stopped, stopped.frame)
    IN  /\ added_groups_' = groups
        /\ Assign([valid EXCEPT
                      !.enabled = KeptEnabled(@, groups),
                      !.scene = SceneRemoveGeometry(@, name)])
        /\ vis_call' = Called("RemoveGeometry", name, i # 0,
                              i # 0 /\ i - 1 >= Len(objects))
        /\ UNCHANGED <<can_auto_show_settings_, show_settings, n_actions>>
        /\ UNCHANGED <<frame_order_vars, selection_vars>>

ShowGeometry(name, show) ==
    LET i == FindObject(objects_, name)
        changed == [ImplState EXCEPT !.objects[i].is_visible = show]
    IN  /\ Assign(IF i # 0 /\ show # objects_[i].is_visible
                  THEN UpdateGeometryVisibility(changed, changed.objects[i])
                  ELSE ImplState)
        /\ vis_call' = Called("ShowGeometry", name, i # 0, FALSE)
        /\ UNCHANGED <<added_groups_, can_auto_show_settings_, show_settings,
                       n_actions>>
        /\ UNCHANGED <<frame_order_vars, selection_vars>>

ShowSettings(show) ==
    /\ AssignSettings(ShowSettingsFlags(show))
    /\ vis_call' = Called("ShowSettings", "", FALSE, FALSE)
    /\ UNCHANGED <<objects_, frames_, added_groups_, enabled_groups,
                   current_frame, is_animating, scene_, anim_slider,
                   anim_edit, n_actions>>
    /\ UNCHANGED <<frame_order_vars, selection_vars>>

\* The settings menu item: flips the panel without touching
\* can_auto_show_settings_.
OnToggleSettings ==
    /\ show_settings' = ~show_settings
    /\ vis_call' = Called("OnToggleSettings", "", FALSE, FALSE)
    /\ UNCHANGED <<objects_, frames_, added_groups_, enabled_groups,
                   current_frame, is_animating, scene_, anim_slider,
                   anim_edit, n_actions, can_auto_show_settings_>>
    /\ UNCHANGED <<frame_order_vars, selection_vars>>

AddAction ==
    LET auto_show == can_auto_show_settings_ /\ n_actions + 1 = 1
    IN  /\ n_actions < MaxActions
        /\ n_actions' = n_actions + 1
        /\ AssignSettings(IF auto_show THEN ShowSettingsFlags(TRUE)
                          ELSE SettingsFlags)
        /\ vis_call' = Called("AddAction", "", FALSE, FALSE)
        /\ UNCHANGED <<objects_, frames_, added_groups_, enabled_groups,
                       current_frame, is_animating, scene_, anim_slider,
                       anim_edit>>
        /\ UNCHANGED <<frame_order_vars, selection_vars>>

EnableGroup(group, enable) ==
    /\ Assign(EnableGroupOn(ImplState, group, enable))
    /\ vis_call' = Called("EnableGroup", group, FALSE, FALSE)
    /\ UNCHANGED <<added_groups_, can_auto_show_settings_, show_settings,
                   n_actions>>
    /\ UNCHANGED <<frame_order_vars, selection_vars>>

SetCurrentFrame(f) ==
    /\ Assign(SetCurrentFrameOn(ImplState, f))
    /\ vis_call' = Called("SetCurrentFrame", "", FALSE, FALSE)
    /\ UNCHANGED <<added_groups_, can_auto_show_settings_, show_settings,
                   n_actions>>
    /\ UNCHANGED <<frame_order_vars, selection_vars>>

\* The slider's and the number edit's value-changed callbacks: the widget
\* already shows new_value.
OnAnimValueChanged(new_value) ==
    LET typed == [ImplState EXCEPT !.frame = new_value,
                                   !.slider = new_value, !.edit = new_value]
    IN  /\ Assign(SetCurrentFrameOn(typed, new_value))
        /\ vis_call' = Called("OnAnimValueChanged", "", FALSE, FALSE)
        /\ UNCHANGED <<added_groups_, can_auto_show_settings_, show_settings,
                       n_actions>>
        /\ UNCHANGED <<frame_order_vars, selection_vars>>

SetAnimating(animate) ==
    /\ Assign(SetAnimatingOn(ImplState, animate))
    /\ vis_call' = Called("SetAnimating", "", FALSE, FALSE)
    /\ UNCHANGED <<added_groups_, can_auto_show_settings_, show_settings,
                   n_actions>>
    /\ UNCHANGED <<frame_order_vars, selection_vars>>

\* The tick callback is installed only while animating; a tick that comes
\* before next_animation_tick_clock_time_ changes nothing.
OnAnimationTick ==
    /\ is_animating
    /\ Assign(SetCurrentFrameOn(ImplState, current_frame + 1))
    /\ vis_call' = Called("OnAnimationTick", "", FALSE, FALSE)
    /\ UNCHANGED <<added_groups_, can_auto_show_settings_, show_settings,
                   n_actions>>
    /\ UNCHANGED <<frame_order_vars, selection_vars>>

\* SetUIState(new_state), of new_state the fields modelled here. The widget
\* callbacks of this file pass ui_state_ itself, which is the choice of
\* new_state equal to the current fields.
SetUIState(new_enabled, new_frame, new_animating, new_show) ==
    LET old_enabled_groups == enabled_groups
        old_is_animating == is_animating
        copied == [ImplState EXCEPT !.enabled = new_enabled,
                                    !.frame = new_frame,
                                    !.animating = new_animating]
        grouped == IF old_enabled_groups # copied.enabled
                   THEN EnableGroupsOn(copied, added_groups_, copied.enabled)
                   ELSE copied
        animated == IF old_is_animating # new_animating
                    THEN SetAnimatingOn(
                             [grouped EXCEPT !.animating = old_is_animating],
                             new_animating)
                    ELSE grouped
    IN  /\ Assign(animated)
        /\ show_settings' = new_show
        /\ vis_call' = Called("SetUIState", "", FALSE, FALSE)
        /\ UNCHANGED <<added_groups_, can_auto_show_settings_, n_actions>>
        /\ UNCHANGED <<frame_order_vars, selection_vars>>

\* O3DVisualizerSelections keeps the selection sets and ListView the list's
\* selected index; of both only the calls are in this file. NewSet adds an
\* empty set at the end, RemoveSet(index) takes out the set at index,
\* SelectIndices and UnselectIndices put picked points into the selected set
\* and take them out, SelectSet and SetSelectedIndex store the index they
\* are given.
NewSet(sets) == Append(sets, {})

RemoveSet(sets, index) ==
    IF index \in 0..(Len(sets) - 1) THEN EraseAt(sets, index) ELSE sets

SelectIndices(sets, selected, indices) ==
    [sets EXCEPT ![selected + 1] = @ \cup indices]

UnselectIndices(sets, selected, indices) ==
    [sets EXCEPT ![selected + 1] = @ \ indices]

SelectionState ==
    [sets |-> sets_, selected |-> selected_set, list |-> list_selected,
     active |-> picking_active]

SelectSelectionSetOn(st, index) ==
    [st EXCEPT !.list = index, !.selected = index]

ClampedIndex_NoClamp(idx, n) == idx

\* idx = std::max(0, idx); idx = std::min(idx, int(n) - 1).
ClampedIndex(idx, n) ==
    LET floored == IF idx < 0 THEN 0 ELSE idx
    IN  IF floored < n - 1 THEN floored ELSE n - 1

UpdateSelectionSetListOn(st) ==
    SelectSelectionSetOn(st, ClampedIndex(st.list, Len(st.sets)))

NewSelectionSetOn(st) ==
    LET listed == UpdateSelectionSetListOn([st EXCEPT !.sets = NewSet(@)])
    IN  SelectSelectionSetOn(listed, Len(listed.sets) - 1)

RemoveSelectionSetOn(st, index) ==
    LET removed == RemoveSet(st.sets, index)
        sets == IF Len(removed) = 0 THEN NewSet(removed) ELSE removed
    IN  UpdateSelectionSetListOn([st EXCEPT !.sets = sets])

AssignSelection(after) ==
    /\ sets_' = after.sets
    /\ selected_set' = after.selected
    /\ list_selected' = after.list
    /\ picking_active' = after.active

SelCalled(op, arg) == [op |-> op, arg |-> arg, sets |-> Len(sets_)]

\* The " + " button.
NewSelectionSet ==
    /\ Len(sets_) < MaxSets
    /\ AssignSelection(NewSelectionSetOn(SelectionState))
    /\ sel_call' = SelCalled("NewSelectionSet", 0)
    /\ UNCHANGED <<frame_order_vars, impl_vars>>

\* The " - " button: RemoveSelectionSet(GetSelectedIndex()), once a set
\* exists.
RemoveSelectionSet ==
    /\ Len(sets_) >= 1
    /\ AssignSelection(RemoveSelectionSetOn(SelectionState, list_selected))
    /\ sel_call' = SelCalled("RemoveSelectionSet", list_selected)
    /\ UNCHANGED <<frame_order_vars, impl_vars>>

\* The list's value-changed callback: the user picked item index, which the
\* list shows selected already.
SelectSelectionSet(index) ==
    /\ index \in 0..(Len(sets_) - 1)
    /\ AssignSelection(SelectSelectionSetOn(SelectionState, index))
    /\ sel_call' = SelCalled("SelectSelectionSet", index)
    /\ UNCHANGED <<frame_order_vars, impl_vars>>

SetPicking ==
    LET st == IF Len(sets_) = 0 THEN NewSelectionSetOn(SelectionState)
              ELSE SelectionState
    IN  /\ AssignSelection([st EXCEPT !.active = TRUE])
        /\ sel_call' = SelCalled("SetPicking", 0)
        /\ UNCHANGED <<frame_order_vars, impl_vars>>

\* SetMouseMode, of which only MakeInactive touches the selections.
SetMouseMode ==
    /\ AssignSelection([SelectionState EXCEPT !.active = FALSE])
    /\ sel_call' = SelCalled("SetMouseMode", 0)
    /\ UNCHANGED <<frame_order_vars, impl_vars>>

\* The scene's points-picked callback, which comes while picking is active:
\* with SHIFT the points leave the selected set, without they enter it.
OnPointsPicked(indices, shift) ==
    /\ picking_active
    /\ sets_' = IF shift THEN UnselectIndices(sets_, selected_set, indices)
                ELSE SelectIndices(sets_, selected_set, indices)
    /\ sel_call' = SelCalled("OnPointsPicked", 0)
    /\ UNCHANGED <<selected_set, list_selected, picking_active>>
    /\ UNCHANGED <<frame_order_vars, impl_vars>>

\* The operations are exercised in groups. Each group holds every operation
\* that writes a field its properties read; an argument that none of those
\* fields depends on is held at one value (an unnamed group, a visible
\* object, the current value of a ui_state_ field).

\* AddGeometry and RemoveGeometry alone, with every argument.
GeomNext ==
    \/ \E name \in Names, group \in GroupArgs, order \in Orders,
          is_visible \in BOOLEAN :
          AddGeometry(name, group, order, is_visible)
    \/ \E name \in Names : RemoveGeometry(name)

GeomSpec == Init /\ [][GeomNext]_vars

\* The operations that write frames_, current_frame, is_animating and the
\* animation widgets.
AnimNext ==
    \/ \E name \in Names, order \in Orders :
          AddGeometry(name, "", order, TRUE)
    \/ \E name \in Names : RemoveGeometry(name)
    \/ \E f \in FrameArgs : SetCurrentFrame(f)
    \/ \E animate \in BOOLEAN : SetAnimating(animate)
    \/ OnAnimationTick
    \/ \E new_value \in FrameArgs : OnAnimValueChanged(new_value)
    \/ \E new_frame \in FrameArgs, new_animating \in BOOLEAN :
          SetUIState(enabled_groups, new_frame, new_animating, show_settings)

AnimSpec == Init /\ [][AnimNext]_vars

\* The operations that write added_groups_ and ui_state_.enabled_groups.
GroupNext ==
    \/ \E name \in Names, group \in GroupArgs, order \in Orders :
          AddGeometry(name, group, order, TRUE)
    \/ \E name \in Names : RemoveGeometry(name)
    \/ \E group \in GroupNames, enable \in BOOLEAN :
          EnableGroup(group, enable)
    \/ \E new_enabled \in SUBSET GroupNames :
          SetUIState(new_enabled, current_frame, is_animating, show_settings)

GroupSpec == Init /\ [][GroupNext]_vars

\* The operations that write can_auto_show_settings_ and
\* ui_state_.show_settings, or what AddGeometry's auto-show reads.
SettingsNext ==
    \/ \E name \in Names, group \in GroupArgs, order \in Orders :
          AddGeometry(name, group, order, TRUE)
    \/ \E name \in Names : RemoveGeometry(name)
    \/ \E show \in BOOLEAN : ShowSettings(show)
    \/ OnToggleSettings
    \/ AddAction
    \/ \E new_show \in BOOLEAN :
          SetUIState(enabled_groups, current_frame, is_animating, new_show)

SettingsSpec == Init /\ [][SettingsNext]_vars

\* The operations that write what the scene shows or what IsGeometryVisible
\* reads (SetUIState's enabled_groups is exercised in GroupNext).
VisNext ==
    \/ \E name \in Names, group \in GroupArgs, order \in Orders,
          is_visible \in BOOLEAN :
          AddGeometry(name, group, order, is_visible)
    \/ \E name \in Names : RemoveGeometry(name)
    \/ \E name \in Names, show \in BOOLEAN : ShowGeometry(name, show)
    \/ \E group \in GroupNames, enable \in BOOLEAN :
          EnableGroup(group, enable)
    \/ \E f \in FrameArgs : SetCurrentFrame(f)
    \/ \E animate \in BOOLEAN : SetAnimating(animate)
    \/ OnAnimationTick
    \/ \E new_value \in FrameArgs : OnAnimValueChanged(new_value)
    \/ \E new_frame \in FrameArgs, new_animating \in BOOLEAN :
          SetUIState(enabled_groups, new_frame, new_animating, show_settings)

VisSpec == Init /\ [][VisNext]_vars

\* An animation run: objects are added and removed while the animation is
\* off, SetAnimating(true) starts it, and from then on only ticks fire.
CycleNext ==
    \/ /\ ~is_animating
       /\ \/ \E name \in Names, order \in Orders :
                AddGeometry(name, "", order, TRUE)
          \/ \E name \in Names : RemoveGeometry(name)
          \/ SetAnimating(TRUE)
    \/ OnAnimationTick

CycleSpec == Init /\ [][CycleNext]_vars

\* The operations on the selection sets.
SelNext ==
    \/ NewSelectionSet
    \/ RemoveSelectionSet
    \/ \E index \in 0..(MaxSets - 1) : SelectSelectionSet(index)
    \/ SetPicking
    \/ SetMouseMode
    \/ \E shift \in BOOLEAN : OnPointsPicked(Points, shift)

SelSpec == Init /\ [][SelNext]_vars

----------------------------------------------------------------------------
\* Properties of the free-standing AnimationFrameOrder (specification Spec).

HasCall == Len(call_log) >= 1
Last == call_log[Len(call_log)]

StrictlyIncreasing(s) == \A i \in 1..(Len(s) - 1) : s[i] < s[i + 1]
NumberLess(s, v) == Cardinality({w \in Range(s) : w < v})
Without(s, v) == SelectSeq(s, LAMBDA x : x # v)

\* C1: after any sequence of AddValue and RemoveValue calls on an initially
\* empty AnimationFrameOrder the stored values are strictly increasing
\* (sorted ascending, no value twice).
C1_StrictlyIncreasing == StrictlyIncreasing(values_)

\* C1 witness: an AddValue took the insert-before-an-existing-value branch and
\* an earlier call was a RemoveValue that erased something; three values held.
C1_Witness ==
    /\ Len(call_log) >= 2
    /\ Last.op = "AddValue"
    /\ Last.arg \notin Range(Last.before)
    /\ \E w \in Range(Last.before) : Last.arg < w
    /\ Len(values_) >= 3
    /\ \E i \in 1..(Len(call_log) - 1) :
          /\ call_log[i].op = "RemoveValue"
          /\ call_log[i + 1].before # call_log[i].before

\* C2 (as claimed): RemoveValue(v) with v not stored leaves the stored sequence
\* unchanged, wherever v lies relative to the stored values.
C2_RemoveAbsentUnchanged ==
    (HasCall /\ Last.op = "RemoveValue" /\ Last.arg \notin Range(Last.before))
        => values_ = Last.before

\* C3 (as claimed): GetFrameForValue(v) returns the not-found sentinel for
\* every v that is not stored, and a 0-based position only when v is stored.
C3_NotFoundIffAbsent ==
    (HasCall /\ Last.op = "GetFrameForValue")
        => /\ Last.arg \notin Range(Last.before) => Last.ret = NotFound
           /\ Last.arg \in Range(Last.before)
                  => Last.ret \in 0..(Len(Last.before) - 1)

\* C4: for every stored value v, GetFrameForValue(v) is the number of stored
\* values strictly less than v; so the ranks of the stored values are pairwise
\* distinct and are exactly 0..Count-1. A logged lookup of a stored value
\* returned that number.
C4_RankIsNumberLess ==
    /\ \A v \in Range(values_) :
          GetFrameForValue(values_, v) = NumberLess(values_, v)
    /\ \A v, w \in Range(values_) :
          v # w => GetFrameForValue(values_, v) # GetFrameForValue(values_, w)
    /\ {GetFrameForValue(values_, v) : v \in Range(values_)}
          = 0..(GetNumberOfFrames(values_) - 1)
    /\ (HasCall /\ Last.op = "GetFrameForValue"
            /\ Last.arg \in Range(Last.before))
          => Last.ret = NumberLess(Last.before, Last.arg)

\* C4 witness: a lookup of the largest of three or more stored values.
C4_Witness ==
    /\ HasCall
    /\ Last.op = "GetFrameForValue"
    /\ Last.arg \in Range(Last.before)
    /\ Last.ret >= 2
    /\ Last.ret # NotFound

\* C5: AddValue(v) adds v iff it is not stored: for an absent v, afterwards v
\* is stored, Count is one larger and every value stored before still is;
\* for a stored v the sequence (and Count) is unchanged.
C5_AddValueIffAbsent ==
    (HasCall /\ Last.op = "AddValue")
        => /\ Last.arg \notin Range(Last.before)
                  => /\ Last.arg \in Range(values_)
                     /\ GetNumberOfFrames(values_)
                            = GetNumberOfFrames(Last.before) + 1
                     /\ Range(Last.before) \subseteq Range(values_)
           /\ Last.arg \in Range(Last.before)
                  => /\ values_ = Last.before
                     /\ GetNumberOfFrames(values_)
                            = GetNumberOfFrames(Last.before)

\* C5 witness: the same value added twice in a row, the first time absent.
C5_Witness ==
    /\ Len(call_log) >= 2
    /\ Last.op = "AddValue"
    /\ call_log[Len(call_log) - 1].op = "AddValue"
    /\ call_log[Len(call_log) - 1].arg = Last.arg
    /\ Last.arg \notin Range(call_log[Len(call_log) - 1].before)
    /\ Len(values_) >= 2

\* C6: RemoveValue(v) with v stored removes exactly v: v is no longer stored,
\* Count is one smaller, the other values are kept in the same relative order.
C6_RemoveStoredExactly ==
    (HasCall /\ Last.op = "RemoveValue" /\ Last.arg \in Range(Last.before))
        => /\ Last.arg \notin Range(values_)
           /\ GetNumberOfFrames(values_) = GetNumberOfFrames(Last.before) - 1
           /\ values_ = Without(Last.before, Last.arg)

\* C6 witness: a stored value that is neither the smallest nor the largest of
\* the stored values was removed.
C6_Witness ==
    /\ HasCall
    /\ Last.op = "RemoveValue"
    /\ Last.arg \in Range(Last.before)
    /\ \E a, b \in Range(Last.before) : a < Last.arg /\ Last.arg < b

\* C7 (as claimed): for v not stored, AddValue(v) then RemoveValue(v) restores
\* the sequence: Count is back at its prior value and a following
\* GetFrameForValue(v) returns not-found.
C7_AddRemoveRoundTrip ==
    (/\ Len(call_log) >= 3
     /\ call_log[Len(call_log) - 2].op = "AddValue"
     /\ call_log[Len(call_log) - 2].arg
            \notin Range(call_log[Len(call_log) - 2].before)
     /\ call_log[Len(call_log) - 1].op = "RemoveValue"
     /\ call_log[Len(call_log) - 1].arg = call_log[Len(call_log) - 2].arg
     /\ Last.op = "GetFrameForValue"
     /\ Last.arg = call_log[Len(call_log) - 2].arg)
        => /\ values_ = call_log[Len(call_log) - 2].before
           /\ GetNumberOfFrames(values_)
                  = GetNumberOfFrames(call_log[Len(call_log) - 2].before)
           /\ Last.ret = NotFound

\* C8 (as claimed): driven by the same calls as a mathematical set, the stored
\* values are exactly the set's elements and GetNumberOfFrames is the set's
\* cardinality.
C8_RefinesSet ==
    /\ Range(values_) = model_set
    /\ GetNumberOfFrames(values_) = Cardinality(model_set)

\* C10: AddValue(v) and RemoveValue(v) leave the rank of every stored value w
\* with w < v as it was.
C10_RankStableBelowArgument ==
    (HasCall /\ Last.op \in {"AddValue", "RemoveValue"})
        => \A w \in Range(Last.before) :
              Last.arg > w
                  => GetFrameForValue(Last.before, w)
                         = GetFrameForValue(values_, w)

\* C10 witness: a RemoveValue whose argument is greater than a stored value
\* erased an element, after an AddValue of a value greater than a stored one
\* had inserted one.
C10_Witness ==
    /\ Len(call_log) >= 2
    /\ Last.op = "RemoveValue"
    /\ values_ # Last.before
    /\ \E w \in Range(Last.before) : w < Last.arg
    /\ call_log[Len(call_log) - 1].op = "AddValue"
    /\ Last.before # call_log[Len(call_log) - 1].before
    /\ \E w \in Range(call_log[Len(call_log) - 1].before) :
          w < call_log[Len(call_log) - 1].arg

\* C11: AddValue(v) of a value not stored raises by exactly one the rank of
\* every stored value greater than v and leaves the rank of every stored
\* value less than v as it was.
C11_AddValueShiftsGreater ==
    (HasCall /\ Last.op = "AddValue" /\ Last.arg \notin Range(Last.before))
        => \A w \in Range(Last.before) :
              /\ w > Last.arg
                    => GetFrameForValue(values_, w)
                           = GetFrameForValue(Last.before, w) + 1
              /\ w < Last.arg
                    => GetFrameForValue(values_, w)
                           = GetFrameForValue(Last.before, w)

\* C11 witness: a value was inserted between two stored values.
C11_Witness ==
    /\ HasCall
    /\ Last.op = "AddValue"
    /\ Last.arg \notin Range(Last.before)
    /\ \E a, b \in Range(Last.before) : a < Last.arg /\ Last.arg < b
    /\ Len(values_) = Len(Last.before) + 1

\* AddValue applied to the values of args, in the order of args.
RECURSIVE AddAll(_, _)
AddAll(s, args) ==
    IF args = <<>> THEN s ELSE AddAll(AddValue(s, Head(args)), Tail(args))

ArgOrders(n) ==
    {p \in [1..n -> 1..n] : \A i, j \in 1..n : i # j => p[i] # p[j]}

AllAddValue == \A i \in 1..Len(call_log) : call_log[i].op = "AddValue"

\* C12: the result of a run of AddValue calls does not depend on their order:
\* the remembered calls, when all are AddValue, leave the sequence that any
\* permutation of their arguments leaves from the same start; inserting
\* 3, 1, 2 into an empty order gives 1, 2, 3 the ranks 0, 1, 2.
C12_AddValueOrderIndependent ==
    /\ (HasCall /\ AllAddValue)
          => \A p \in ArgOrders(Len(call_log)) :
                AddAll(call_log[1].before,
                       [i \in 1..Len(call_log) |-> call_log[p[i]].arg])
                    = values_
    /\ (/\ Len(call_log) = 3
        /\ AllAddValue
        /\ call_log[1].before = <<>>
        /\ <<call_log[1].arg, call_log[2].arg, call_log[3].arg>> = <<3, 1, 2>>)
          => /\ GetFrameForValue(values_, 1) = 0
             /\ GetFrameForValue(values_, 2) = 1
             /\ GetFrameForValue(values_, 3) = 2

\* C12 witness: 3, 1, 2 were inserted, in this order, into an empty order.
C12_Witness ==
    /\ Len(call_log) = 3
    /\ AllAddValue
    /\ call_log[1].before = <<>>
    /\ <<call_log[1].arg, call_log[2].arg, call_log[3].arg>> = <<3, 1, 2>>
    /\ values_ = <<1, 2, 3>>

\* C13: the not-found result is -1 converted to size_t, 2^w - 1; it is not the
\* rank of any stored value and not a frame index below the number of frames,
\* so a lookup that returned it did not return a valid current frame.
C13_NotFoundIsNoFrame ==
    /\ NotFound = SizeModulus - 1
    /\ \A v \in Range(values_) : GetFrameForValue(values_, v) # NotFound
    /\ NotFound \notin 0..(GetNumberOfFrames(values_) - 1)
    /\ (HasCall /\ Last.op = "GetFrameForValue"
            /\ Last.arg \notin Range(Last.before)
            /\ \A w \in Range(Last.before) : w < Last.arg)
          => /\ Last.ret = NotFound
             /\ Last.ret \notin 0..(GetNumberOfFrames(Last.before) - 1)

\* C13 witness: a lookup of a value greater than the stored ones returned
\* the not-found result while values were stored.
C13_Witness ==
    /\ HasCall
    /\ Last.op = "GetFrameForValue"
    /\ Last.ret = NotFound
    /\ GetNumberOfFrames(Last.before) >= 2

----------------------------------------------------------------------------
\* Properties of the visualizer (specification VisSpec).

ObjectOrders == {o.order : o \in Range(objects_)}

\* C9 (as claimed): after any sequence of AddGeometry and RemoveGeometry calls,
\* RemoveGeometry of names that are not held included, the values stored in
\* frames_ are exactly the order tags of the objects held in objects_.
C9_FramesAreObjectOrders == Range(frames_) = ObjectOrders

PublicOperations ==
    {"AddGeometry", "RemoveGeometry", "ShowGeometry", "EnableGroup",
     "SetCurrentFrame", "SetAnimating", "SetUIState", "OnAnimationTick"}

\* Object i is the only held object of its name (the scene keeps one
\* geometry per name).
UniquelyNamed(i) ==
    \A j \in 1..Len(objects_) : objects_[j].name = objects_[i].name => j = i

SceneMatches(i) ==
    scene_[objects_[i].name] = "shown"
        <=> /\ objects_[i].is_visible
            /\ objects_[i].group \in enabled_groups
            /\ GetFrameForValue(frames_, objects_[i].order) = current_frame

\* C14: after every completed public operation each held object is shown in
\* the scene iff its is_visible flag is set, its group is enabled and the
\* frame index of its order is current_frame, also for objects already held
\* when AddGeometry inserts a smaller order. Violated: AddGeometry refreshes
\* the scene for the new object only.
C14_SceneShowsVisibleObjects ==
    vis_call.op \in PublicOperations
        => \A i \in 1..Len(objects_) : UniquelyNamed(i) => SceneMatches(i)

\* C15: after RemoveGeometry current_frame is below the number of frames when
\* a frame remains and 0 when none remains.
C15_FrameValidAfterRemove ==
    vis_call.op = "RemoveGeometry"
        => /\ GetNumberOfFrames(frames_) >= 1
                 => current_frame \in 0..(GetNumberOfFrames(frames_) - 1)
           /\ GetNumberOfFrames(frames_) = 0 => current_frame = 0

\* C15 witness: a held object was removed and one object, one frame remain.
C15_Witness ==
    /\ vis_call.op = "RemoveGeometry"
    /\ vis_call.held
    /\ GetNumberOfFrames(frames_) = 1
    /\ Len(objects_) = 1
    /\ current_frame = 0

\* C16: after every completed operation the animation slider and the number
\* edit both show ui_state_.current_frame, also after SetAnimating(true) and
\* after SetUIState with another current_frame. Violated: neither of the two
\* sets the widgets.
C16_WidgetsShowCurrentFrame ==
    /\ anim_slider = current_frame
    /\ anim_edit = current_frame

\* C17: after any AddGeometry and RemoveGeometry calls added_groups_ is the
\* set of the group names of the held objects ("default" for an empty name).
C17_GroupsAreObjectGroups ==
    /\ added_groups_ = {o.group : o \in Range(objects_)}
    /\ \A o \in Range(objects_) : o.group # ""

\* C17 witness: an object was removed, its group went with it and an object
\* added with an empty group name is left, in "default".
C17_Witness ==
    /\ vis_call.op = "RemoveGeometry"
    /\ vis_call.held
    /\ Len(objects_) = 1
    /\ added_groups_ = {"default"}
    /\ enabled_groups = {"default"}

\* C18: RemoveGeometry leaves enabled_groups within the groups of the
\* remaining objects, and a surviving group enabled iff it was enabled.
C18_RemoveKeepsSurvivingEnabled ==
    [][vis_call'.op = "RemoveGeometry"
          => LET groups == {o.group : o \in Range(objects_')}
             IN  /\ enabled_groups' \subseteq groups
                 /\ \A g \in groups :
                       g \in enabled_groups' <=> g \in enabled_groups]_vars

\* C18 witness: after a removal of a held object one group is left with an
\* object and is disabled, none else is enabled.
C18_Witness ==
    /\ vis_call.op = "RemoveGeometry"
    /\ vis_call.held
    /\ added_groups_ = {"g"}
    /\ enabled_groups = {}

\* C19: once ShowSettings has run can_auto_show_settings_ stays false and no
\* AddGeometry or AddAction changes ui_state_.show_settings; until then
\* AddGeometry shows the panel exactly when the number of groups becomes 2
\* or a new order value was inserted.
C19_AutoShowIsOneShot ==
    [][/\ ~can_auto_show_settings_ => ~can_auto_show_settings_'
       /\ vis_call'.op = "ShowSettings" => ~can_auto_show_settings_'
       /\ (~can_auto_show_settings_
              /\ vis_call'.op \in {"AddGeometry", "AddAction"})
             => show_settings' = show_settings
       /\ (can_auto_show_settings_ /\ vis_call'.op = "AddGeometry")
             => LET fancy == \/ Cardinality(added_groups_') = 2
                             \/ Len(frames_') > Len(frames_)
                IN  /\ fancy => show_settings' /\ ~can_auto_show_settings_'
                    /\ ~fancy => /\ show_settings' = show_settings
                                 /\ can_auto_show_settings_']_vars

\* C19 witness: an AddGeometry that made the number of groups 2 left the
\* panel hidden, ShowSettings having run before.
C19_Witness ==
    /\ vis_call.op = "AddGeometry"
    /\ Cardinality(added_groups_) = 2
    /\ ~can_auto_show_settings_
    /\ ~show_settings

\* C20: after RemoveSelectionSet there is at least one selection set (the
\* only set, removed, is there again and empty); once a set exists the
\* number of sets never drops to 0, and the index the list shows selected
\* is within 0..n-1.
C20_AlwaysOneSelectionSet ==
    /\ sel_call.op = "RemoveSelectionSet" => Len(sets_) >= 1
    /\ (sel_call.op = "RemoveSelectionSet" /\ sel_call.sets = 1)
          => sets_ = <<{}>>
    /\ sel_call.sets >= 1 => Len(sets_) >= 1
    /\ Len(sets_) >= 1 => list_selected \in 0..(Len(sets_) - 1)

\* C20 witness: the only set was removed and one set is there again, shown
\* selected in the list, while picking is active.
C20_Witness ==
    /\ sel_call.op = "RemoveSelectionSet"
    /\ sel_call.sets = 1
    /\ sel_call.arg = 0
    /\ Len(sets_) = 1
    /\ list_selected = 0
    /\ picking_active

ValidFrame(frame, frames) ==
    \/ frame \in 0..(GetNumberOfFrames(frames) - 1)
    \/ GetNumberOfFrames(frames) = 0 /\ frame = 0

\* C21: RemoveGeometry with a name no held object has leaves objects_, the
\* values of frames_, added_groups_, enabled_groups and a valid current_frame
\* as they were. Violated: the call removes a value from frames_.
C21_RemoveUnknownChangesNothing ==
    [][(vis_call'.op = "RemoveGeometry" /\ ~vis_call'.held)
          => /\ objects_' = objects_
             /\ frames_' = frames_
             /\ added_groups_' = added_groups_
             /\ enabled_groups' = enabled_groups
             /\ ValidFrame(current_frame, frames_)
                   => current_frame' = current_frame]_vars

\* C22: RemoveGeometry reads objects_[i] only with i below the length
\* objects_ has at the read, also when the removed object is the last of the
\* list. Violated: objects_[i].name is read after the erase.
C22_RemoveIndexesInBounds ==
    vis_call.op = "RemoveGeometry" => ~vis_call.oob

\* C23: while animating over n >= 1 frames with nothing but ticks, the first
\* tick after SetAnimating(true) shows frame 0, each later tick the frame
\* after the one before, and the tick after frame n - 1 frame 0 again.
C23_TicksCycleFrames ==
    [][(vis_call'.op = "OnAnimationTick" /\ GetNumberOfFrames(frames_) >= 1)
          => /\ frames_' = frames_
             /\ is_animating'
             /\ vis_call.op = "SetAnimating" => current_frame' = 0
             /\ vis_call.op = "OnAnimationTick"
                   => current_frame'
                          = IF current_frame = GetNumberOfFrames(frames_) - 1
                            THEN 0
                            ELSE current_frame + 1]_vars

\* C23 witness: ticks have fired over two frames and the second frame is
\* shown.
C23_Witness ==
    /\ vis_call.op = "OnAnimationTick"
    /\ is_animating
    /\ GetNumberOfFrames(frames_) = 2
    /\ current_frame = 1
    /\ anim_slider = 1

\* C24: SetCurrentFrame(f) leaves current_frame = f when f is below the
\* number of frames and 0 otherwise, so that right after it current_frame is
\* not at or above a non-zero number of frames.
C24_SetCurrentFrameWraps ==
    [][vis_call'.op = "SetCurrentFrame"
          => /\ \E f \in FrameArgs :
                   /\ ImplState' = SetCurrentFrameOn(ImplState, f)
                   /\ current_frame'
                          = IF f < GetNumberOfFrames(frames_) THEN f ELSE 0
             /\ GetNumberOfFrames(frames_') >= 1
                   => current_frame' < GetNumberOfFrames(frames_')]_vars

\* C24 witness: SetCurrentFrame(1) over two frames left frame 1 current.
C24_Witness ==
    /\ vis_call.op = "SetCurrentFrame"
    /\ ~is_animating
    /\ GetNumberOfFrames(frames_) = 2
    /\ current_frame = 1

====
